---- MODULE Spec2Model ----
(***************************************************************************)
(* Model of nu-cli (src/index.js, the commander program with the `link`,   *)
(* `unlink`, `env <environment> [database]` and `status` subcommands).     *)
(*                                                                         *)
(* Representation.                                                         *)
(*  - A variable name is the sequence of its "_"-separated segments:       *)
(*    "BE_SS_SERVER_PORT" is <<"BE","SS","SERVER","PORT">>.  The regular   *)
(*    expression /^(FE_|BE_|DB_)(SS|CS|RS)_/ matches a name exactly when   *)
(*    it has at least three segments, the first being FE, BE or DB and the *)
(*    second SS, CS or RS.                                                 *)
(*  - JavaScript `undefined` is the string Undefined; no input string      *)
(*    equals it.                                                           *)
(*  - A value read out of configEnv is a record [kind, items]; kind tells  *)
(*    arrays, strings (both iterable), functions and undefined apart.      *)
(*  - A line NAME=value of a .env file is [name, value] where value is the *)
(*    key under which process.env is read.                                 *)
(*  - A project directory is named by what its nucli.config.json holds.    *)
(*  - dotEnv is the .env file the program wrote last, with its directory.  *)
(*    The program never reads a project's .env (dotenv.config reads the    *)
(*    one beside index.js), so a run does not depend on older ones.        *)
(***************************************************************************)
EXTENDS Naturals, Sequences, FiniteSets

VARIABLES cliStatus, dotEnv, last, envVar, line

vars == <<cliStatus, dotEnv, last, envVar, line>>

Undefined == "undefined"

----------------------------------------------------------------------------
(* The tables of buildEnv.                                                 *)

configEnv ==
  [frontend |-> [default |-> <<>>],
   backend |->
     [single |-> << <<"BE", "SS", "SERVER", "HOSTNAME">>,
                    <<"BE", "SS", "SERVER", "PORT">>,
                    <<"BE", "SS", "SERVER", "TOKEN", "KEY">> >>,
      connected |-> << <<"BE", "CS", "SERVER", "HOSTNAME">>,
                       <<"BE", "CS", "SERVER", "PORT">>,
                       <<"BE", "CS", "SERVER", "TOKEN", "KEY">> >>],
   database |->
     [single |-> << <<"DB", "SS", "MONGODB", "INITDB", "ROOT", "USERNAME">>,
                    <<"DB", "SS", "MONGODB", "INITDB", "ROOT", "PASSWORD">>,
                    <<"DB", "SS", "MONGODB", "INITDB", "PORT">>,
                    <<"DB", "SS", "MONGODB", "CONNECTION", "STRING">> >>,
      connected |-> << <<"DB", "CS", "MONGODB", "INITDB", "ROOT", "USERNAME">>,
                       <<"DB", "CS", "MONGODB", "INITDB", "ROOT", "PASSWORD">>,
                       <<"DB", "CS", "MONGODB", "INITDB", "PORT">>,
                       <<"DB", "CS", "MONGODB", "CONNECTION", "STRING">> >>,
      remote |-> << <<"DB", "RS", "MONGODB", "INITDB", "ROOT", "USERNAME">>,
                    <<"DB", "RS", "MONGODB", "INITDB", "ROOT", "PASSWORD">>,
                    <<"DB", "RS", "MONGODB", "INITDB", "PORT">>,
                    <<"DB", "RS", "MONGODB", "CONNECTION", "STRING">> >>]]

defaultEnvironments ==
  [frontend |-> "default", backend |-> "single", database |-> "single"]

(* Both tables are object literals, so a property they do not own is looked *)
(* up on Object.prototype.  InheritedKeys is the part of Object.prototype   *)
(* the inputs below can name; its `constructor` is the function Object.     *)
InheritedKeys == {"constructor"}

(* A function used as a property key is coerced to its source text, which   *)
(* names no property of any object here.                                    *)
FunctionText == "function Object() { [native code] }"

Truthy(s) == s # Undefined /\ s # ""

JsUndefined == [kind |-> "undefined", items |-> <<>>]
JsFunction == [kind |-> "function", items |-> <<>>]
JsArray(a) == [kind |-> "array", items |-> a]
(* Object.name, the string "Object": spreading it yields its characters.    *)
JsObjectName ==
  [kind |-> "string",
   items |-> << <<"O">>, <<"b">>, <<"j">>, <<"e">>, <<"c">>, <<"t">> >>]

TruthyValue(v) == v.kind # "undefined"
Iterable(v) == v.kind \in {"array", "string"}

(* defaultEnvironments[serviceName], as the property key it is later used   *)
(* as (line 149), or Undefined.                                             *)
defaultEnvironmentsGet(serviceName) ==
  IF serviceName \in DOMAIN defaultEnvironments
  THEN defaultEnvironments[serviceName]
  ELSE IF serviceName \in InheritedKeys THEN FunctionText ELSE Undefined

(* configEnv[serviceName]?.[key]                                            *)
configEnvGet(serviceName, key) ==
  IF serviceName \in DOMAIN configEnv
  THEN IF key \in DOMAIN configEnv[serviceName]
       THEN JsArray(configEnv[serviceName][key])
       ELSE IF key \in InheritedKeys THEN JsFunction ELSE JsUndefined
  ELSE IF serviceName \in InheritedKeys
       THEN (* a property of the function Object *)
            IF key = "name" THEN JsObjectName
            ELSE IF key \in InheritedKeys THEN JsFunction ELSE JsUndefined
       ELSE JsUndefined

----------------------------------------------------------------------------
(* buildEnv                                                                 *)

ServicePrefixes == {"FE", "BE", "DB"}
ModeCodes == {"SS", "CS", "RS"}

(* envVar.replace(/^(FE_|BE_|DB_)(SS|CS|RS)_/, "")                          *)
replace(raw) ==
  IF Len(raw) >= 3 /\ raw[1] \in ServicePrefixes /\ raw[2] \in ModeCodes
  THEN SubSeq(raw, 3, Len(raw))
  ELSE raw

(* `${envVar.replace(...)}=${process.env[envVar]}`                          *)
envLine(raw) == [name |-> replace(raw), value |-> raw]

resolveEnvironment(serviceName, environment) ==
  IF Truthy(environment) THEN environment
  ELSE defaultEnvironmentsGet(serviceName)

(* Variant: the database argument is not consulted.                         *)
databaseKeyOfBackend(database, resolvedEnvironment) == resolvedEnvironment

databaseKey(database, resolvedEnvironment) ==
  IF database = "remote" THEN "remote" ELSE resolvedEnvironment

(* Variant: the database variables are looked up for every service.        *)
dbEnvVarsAnyService(serviceName, database, resolvedEnvironment) ==
  configEnvGet("database", databaseKey(database, resolvedEnvironment))

dbEnvVars(serviceName, database, resolvedEnvironment) ==
  IF serviceName = "backend"
  THEN configEnvGet("database", databaseKey(database, resolvedEnvironment))
  ELSE JsArray(<<>>)

(* [...envVars, ...dbEnvVars].map(...)                                      *)
envFileContent(envVars, dbVars) ==
  LET all == envVars.items \o dbVars.items
  IN [i \in 1..Len(all) |-> envLine(all[i])]

NoBuild == [exit |-> 1, error |-> "", written |-> FALSE, content |-> <<>>]

(* The run of buildEnv: exit 0 means it returned, exit 1 that the process   *)
(* ended inside it (process.exit(1), or an uncaught TypeError).             *)
buildEnv(serviceName, environment, database) ==
  IF ~Truthy(defaultEnvironmentsGet(serviceName))
  THEN [NoBuild EXCEPT !.error = "Invalid service name"]
  ELSE
    LET resolvedEnvironment == resolveEnvironment(serviceName, environment)
        envVars == configEnvGet(serviceName, resolvedEnvironment)
        dbVars == dbEnvVars(serviceName, database, resolvedEnvironment)
    IN IF ~TruthyValue(envVars)
       THEN [NoBuild EXCEPT !.error = "Invalid environment"]
       ELSE IF ~Iterable(envVars) \/ ~Iterable(dbVars)
       THEN [NoBuild EXCEPT !.error = "TypeError"]
       ELSE [exit |-> 0, error |-> "", written |-> TRUE,
             content |-> envFileContent(envVars, dbVars)]

(* What buildEnv returns as `environment` (line 166).                       *)
buildEnvReturnedEnvironment(serviceName, environment) == environment

----------------------------------------------------------------------------
(* cli-status.json                                                          *)

(* A field assigned undefined is dropped by JSON.stringify and reads back   *)
(* as undefined.                                                            *)
(* Variant: a connected backend is recorded with a remote database.         *)
updateStatusConnectedRemote(statusData, service, environment) ==
  IF service = "backend"
  THEN [statusData EXCEPT
          !.backend = environment,
          !.database = IF environment = "single" THEN "local"
                       ELSE IF environment = "connected" THEN "remote"
                       ELSE IF environment = "remote" THEN "remote"
                       ELSE ""]
  ELSE IF service = "frontend"
  THEN [statusData EXCEPT !.frontend = environment]
  ELSE statusData

updateStatus(statusData, service, environment) ==
  IF service = "backend"
  THEN [statusData EXCEPT
          !.backend = environment,
          !.database = IF environment = "single" THEN "local"
                       ELSE IF environment = "connected" THEN "local"
                       ELSE IF environment = "remote" THEN "remote"
                       ELSE ""]
  ELSE IF service = "frontend"
  THEN [statusData EXCEPT !.frontend = environment]
  ELSE statusData

----------------------------------------------------------------------------
(* nucli.config.json of the working directory                               *)

Missing == "<no nucli.config.json>"
InvalidJson == "<nucli.config.json is not JSON>"

Projects ==
  {"frontend", "backend", "database", "cache", "constructor",
   InvalidJson, Missing}

(* What `env <environment> [database]` can be given.                        *)
Environments ==
  {"single", "connected", "testing", "remote", "default", "name",
   "constructor"}
Databases == {Undefined, "remote", "single"}

checkConfig(cwd) ==
  IF cwd = Missing
  THEN [exit |-> 1, error |-> "nucli.config.json file not found",
        service |-> Undefined]
  ELSE IF cwd = InvalidJson
  THEN [exit |-> 1, error |-> "Invalid nucli.config.json",
        service |-> Undefined]
  ELSE [exit |-> 0, error |-> "",
        service |-> cwd]

----------------------------------------------------------------------------
(* The try blocks: docker compose, then the status record.  trace lists the *)
(* effects in the order the code performs them; docker tells how execSync   *)
(* ended.                                                                   *)

(* Variant: the status record is written before docker compose runs.       *)
linkTryStatusFirst(statusData, service, environment, dockerOk) ==
  [status |-> updateStatus(statusData, service, environment),
   trace |-> <<"updateStatus", "compose">>,
   docker |-> IF dockerOk THEN "ok" ELSE "failed",
   exit |-> IF dockerOk THEN 0 ELSE 1,
   error |-> IF dockerOk THEN "" ELSE "Error while linking service"]

linkTry(statusData, service, environment, dockerOk) ==
  IF dockerOk
  THEN [status |-> updateStatus(statusData, service, environment),
        trace |-> <<"compose", "updateStatus">>, docker |-> "ok",
        exit |-> 0, error |-> ""]
  ELSE [status |-> statusData, trace |-> <<"compose">>,
        docker |-> "failed", exit |-> 1,
        error |-> "Error while linking service"]

unlinkTry(statusData, dockerOk) ==
  IF dockerOk
  THEN [status |-> updateStatus(updateStatus(statusData, "backend", ""),
                                "frontend", ""),
        trace |-> <<"compose", "updateStatus", "updateStatus">>,
        docker |-> "ok", exit |-> 0, error |-> ""]
  ELSE [status |-> statusData, trace |-> <<"compose">>,
        docker |-> "failed", exit |-> 1,
        error |-> "Error while unlinking service"]

changeEnvironmentsTry(statusData, service, environment, dockerOk) ==
  IF dockerOk
  THEN [status |-> updateStatus(statusData, service, environment),
        trace |-> <<"compose", "updateStatus">>, docker |-> "ok",
        exit |-> 0, error |-> ""]
  ELSE [status |-> statusData, trace |-> <<"compose">>,
        docker |-> "failed", exit |-> 1,
        error |-> "Error while changing environments"]

----------------------------------------------------------------------------
(* State                                                                    *)

NoFile == [exists |-> FALSE, dir |-> Missing, lines |-> <<>>]
File(cwd, content) == [exists |-> TRUE, dir |-> cwd, lines |-> content]
NoLine == [name |-> <<>>, value |-> <<>>]

Run(cmd, cwd, service, environment, database, trace, docker, exit, error) ==
  [cmd |-> cmd, cwd |-> cwd, service |-> service,
   environment |-> environment, database |-> database,
   trace |-> trace, docker |-> docker, exit |-> exit, error |-> error]

NoRun ==
  Run("none", Missing, Undefined, Undefined, Undefined, <<>>, "none", 0, "")

Init ==
  /\ cliStatus = [frontend |-> "", backend |-> "", database |-> ""]
  /\ dotEnv = NoFile
  /\ last = NoRun
  /\ envVar = <<>>
  /\ line = NoLine

----------------------------------------------------------------------------
(* The commands.  Each is one run of the program, start to exit.            *)

link(cwd, dockerOk) ==
  LET configData == checkConfig(cwd)
      built == buildEnv(configData.service, Undefined, Undefined)
      environment ==
        buildEnvReturnedEnvironment(configData.service, Undefined)
      try == linkTry(cliStatus, configData.service, environment, dockerOk)
  IN /\ UNCHANGED <<envVar, line>>
     /\ IF configData.exit # 0
        THEN /\ last' = Run("link", cwd, Undefined, Undefined, Undefined,
                            <<>>, "none", 1, configData.error)
             /\ UNCHANGED <<cliStatus, dotEnv>>
        ELSE IF built.exit # 0
        THEN /\ last' = Run("link", cwd, configData.service, Undefined,
                            Undefined, <<>>, "none", 1, built.error)
             /\ UNCHANGED <<cliStatus, dotEnv>>
        ELSE /\ dotEnv' = File(cwd, built.content)
             /\ cliStatus' = try.status
             /\ last' = Run("link", cwd, configData.service, Undefined,
                            Undefined, <<"writeEnv">> \o try.trace,
                            try.docker, try.exit, try.error)

unlink(cwd, dockerOk) ==
  LET configData == checkConfig(cwd)
      try == unlinkTry(cliStatus, dockerOk)
  IN /\ UNCHANGED <<envVar, line, dotEnv>>
     /\ IF configData.exit # 0
        THEN /\ last' = Run("unlink", cwd, Undefined, Undefined, Undefined,
                            <<>>, "none", 1, configData.error)
             /\ UNCHANGED cliStatus
        ELSE /\ cliStatus' = try.status
             /\ last' = Run("unlink", cwd, configData.service, Undefined,
                            Undefined, try.trace, try.docker, try.exit,
                            try.error)

changeEnvironments(cwd, environment, database, dockerOk) ==
  LET configData == checkConfig(cwd)
      built == buildEnv(configData.service, environment, database)
      try == changeEnvironmentsTry(cliStatus, configData.service,
                                   environment, dockerOk)
  IN /\ UNCHANGED <<envVar, line>>
     /\ IF configData.exit # 0
        THEN /\ last' = Run("env", cwd, Undefined, environment, database,
                            <<>>, "none", 1, configData.error)
             /\ UNCHANGED <<cliStatus, dotEnv>>
        ELSE IF built.exit # 0
        THEN /\ last' = Run("env", cwd, configData.service, environment,
                            database, <<>>, "none", 1, built.error)
             /\ UNCHANGED <<cliStatus, dotEnv>>
        ELSE /\ dotEnv' = File(cwd, built.content)
             /\ cliStatus' = try.status
             /\ last' = Run("env", cwd, configData.service, environment,
                            database, <<"writeEnv">> \o try.trace,
                            try.docker, try.exit, try.error)

(* status() reads cli-status.json and prints nothing.                       *)
status ==
  /\ last' = [NoRun EXCEPT !.cmd = "status"]
  /\ UNCHANGED <<cliStatus, dotEnv, envVar, line>>

Next ==
  \/ \E cwd \in Projects, dockerOk \in BOOLEAN : link(cwd, dockerOk)
  \/ \E cwd \in Projects, dockerOk \in BOOLEAN : unlink(cwd, dockerOk)
  \/ \E cwd \in Projects, environment \in Environments,
        database \in Databases, dockerOk \in BOOLEAN :
       changeEnvironments(cwd, environment, database, dockerOk)
  \/ status

Spec == Init /\ [][Next]_vars

----------------------------------------------------------------------------
(* The name mapping of buildEnv (line 161) on its own, applied to any       *)
(* variable name of at most MaxSegments segments.                           *)

MaxSegments == 3

Segments == {"FE", "BE", "DB", "SS", "CS", "RS", "TS", "SERVER", "PORT"}

RawNames ==
  UNION {[1..n -> Segments] : n \in 1..MaxSegments}

InitMap ==
  /\ cliStatus = [frontend |-> "", backend |-> "", database |-> ""]
  /\ dotEnv = NoFile
  /\ last = NoRun
  /\ envVar \in RawNames
  /\ line = NoLine

mapEnvVar ==
  /\ line = NoLine
  /\ line' = envLine(envVar)
  /\ UNCHANGED <<cliStatus, dotEnv, last, envVar>>

NextMap == mapEnvVar

SpecMap == InitMap /\ [][NextMap]_vars

----------------------------------------------------------------------------
(* Properties.  They are stated over the run just finished (last) and the   *)
(* files it left.                                                           *)

ServiceNames == {"frontend", "backend", "database"}

Has(seq, e) == \E i \in 1..Len(seq) : seq[i] = e

UsesBuildEnv == last.cmd \in {"link", "env"}
ConfigRead == last.cwd \notin {Missing, InvalidJson}
WroteEnv == Has(last.trace, "writeEnv")

(* serviceEnvironment ?? DefaultEnvironment[serviceName], for a known       *)
(* service.                                                                 *)
Resolved ==
  IF last.environment = Undefined
  THEN defaultEnvironments[last.service]
  ELSE last.environment

ValidPair ==
  /\ UsesBuildEnv
  /\ ConfigRead
  /\ last.service \in ServiceNames
  /\ Resolved \in DOMAIN configEnv[last.service]

(* The database table entry the rules select for a backend.                 *)
MatchedDatabaseEntry ==
  configEnv["database"][IF last.database = "remote" THEN "remote"
                        ELSE Resolved]

(* The raw names behind the lines of the .env file, in file order.          *)
WrittenRawNames == [i \in 1..Len(dotEnv.lines) |-> dotEnv.lines[i].value]

(* C1: for a backend, a database environment that is supplied, is not       *)
(* "remote" and differs from the resolved backend environment makes the run *)
(* fail with the inconsistent-database error and write no .env file.        *)
C1_InconsistentDatabaseRejected ==
  (/\ ValidPair
   /\ last.service = "backend"
   /\ last.database \notin {Undefined, "remote"}
   /\ last.database # Resolved)
  => /\ last.exit = 1
     /\ last.error = "Inconsistent database environment"
     /\ ~WroteEnv

(* C2: after a successful `env` on a backend the status record's database   *)
(* field is "remote" exactly when the supplied database is "remote", and    *)
(* "local" otherwise.                                                       *)
C2_DatabaseLabelRecorded ==
  (last.cmd = "env" /\ last.service = "backend" /\ last.exit = 0)
  => cliStatus.database =
       IF last.database = "remote" THEN "remote" ELSE "local"

(* C3: `link` behaves as `env <default environment>`: it writes the same    *)
(* variable list and records the default environment (and, for a backend,   *)
(* the local database) in the status record.                                *)
C3_DefaultSubstitution ==
  (last.cmd = "link" /\ last.service \in ServiceNames /\ last.exit = 0)
  => /\ dotEnv.lines =
          buildEnv(last.service, defaultEnvironments[last.service],
                   Undefined).content
     /\ cliStatus =
          updateStatus(cliStatus, last.service,
                       defaultEnvironments[last.service])
     /\ (last.service = "backend"
           => cliStatus.backend = defaultEnvironments["backend"])

(* C4: on a backend, `env testing` and `env connected`, with the database   *)
(* left empty or "remote", pass validation and produce a .env file.         *)
C4_TestingAndConnectedAccepted ==
  (/\ last.cmd = "env"
   /\ last.service = "backend"
   /\ last.environment \in {"testing", "connected"}
   /\ last.database \in {Undefined, "remote"})
  => /\ WroteEnv
     /\ last.error # "Invalid environment"

(* C5: for every backend environment of the table, the run succeeds in      *)
(* building the file and the database variables appended after the          *)
(* backend's own are the database.remote list when the database is          *)
(* "remote", and the database entry of the resolved backend environment     *)
(* otherwise.                                                               *)
C5_RemoteOverride ==
  (ValidPair /\ last.service = "backend")
  => /\ WroteEnv
     /\ dotEnv.exists /\ dotEnv.dir = last.cwd
     /\ SubSeq(WrittenRawNames,
               Len(configEnv["backend"][Resolved]) + 1,
               Len(WrittenRawNames))
          = IF last.database = "remote"
            THEN configEnv["database"]["remote"]
            ELSE configEnv["database"][Resolved]

C5_Witness ==
  /\ last.cmd = "env" /\ last.service = "backend"
  /\ last.environment = "connected" /\ last.database = "remote"
  /\ WroteEnv
  /\ dotEnv.lines[4].value =
       <<"DB", "RS", "MONGODB", "INITDB", "ROOT", "USERNAME">>

(* C6: for every valid (service, environment) pair the file lists the       *)
(* service's table entry in table order followed, for a backend only, by    *)
(* the matched database entry in table order; its length is the sum of the  *)
(* two lengths; frontend and database get no cross-service variables.       *)
C6_OutputIsServiceThenDatabase ==
  ValidPair
  => /\ WroteEnv
     /\ dotEnv.exists /\ dotEnv.dir = last.cwd
     /\ WrittenRawNames =
          configEnv[last.service][Resolved]
            \o (IF last.service = "backend" THEN MatchedDatabaseEntry
                ELSE <<>>)
     /\ Len(dotEnv.lines) =
          Len(configEnv[last.service][Resolved])
            + (IF last.service = "backend" THEN Len(MatchedDatabaseEntry)
               ELSE 0)

C6_Witness ==
  /\ last.cmd = "env" /\ last.service = "database"
  /\ last.environment = "remote"
  /\ WroteEnv
  /\ Len(dotEnv.lines) = 4

C8_ValidationAllOrNothing ==
  (UsesBuildEnv /\ ConfigRead /\ ~ValidPair)
  => /\ last.exit = 1
     /\ last.trace = <<>>

(* C9: in link, env and unlink the status record is written only after      *)
(* docker compose succeeded.  When docker compose fails the run exits with  *)
(* code 1, the status record is what it was, and the .env file written by   *)
(* link or env is in place; when it succeeds the run exits with code 0.     *)
C9_Step ==
  /\ last'.docker = "failed"
       => /\ last'.exit = 1
          /\ cliStatus' = cliStatus
          /\ ~Has(last'.trace, "updateStatus")
          /\ (last'.cmd \in {"link", "env"}
                => /\ last'.trace[1] = "writeEnv"
                   /\ dotEnv'.exists /\ dotEnv'.dir = last'.cwd)
  /\ last'.docker = "ok" => last'.exit = 0
  /\ \A i \in 1..Len(last'.trace) :
       last'.trace[i] = "updateStatus"
         => /\ last'.docker = "ok"
            /\ \E j \in 1..(i - 1) : last'.trace[j] = "compose"
  /\ cliStatus' # cliStatus => Has(last'.trace, "updateStatus")

StatusConsistent ==
  /\ cliStatus.database = "local"
       <=> cliStatus.backend \in {"single", "connected"}
  /\ cliStatus.database = "remote" <=> cliStatus.backend = "remote"
  /\ cliStatus.database \in {"local", "remote", ""}

C10_Step ==
  /\ StatusConsistent'
  /\ (last'.exit = 0 /\ last'.cmd \in {"link", "env"})
       => /\ last'.service = "frontend"
            => /\ cliStatus'.backend = cliStatus.backend
               /\ cliStatus'.database = cliStatus.database
          /\ last'.service = "database" => cliStatus' = cliStatus
  /\ (last'.exit = 0 /\ last'.cmd = "unlink")
       => cliStatus' = [frontend |-> "", backend |-> "", database |-> ""]

C10_StatusRecord == StatusConsistent /\ [][C10_Step]_vars

C10_Witness ==
  /\ last.cmd = "env" /\ last.service = "frontend" /\ last.exit = 0
  /\ cliStatus.frontend = "default"
  /\ cliStatus.backend = "connected"
  /\ cliStatus.database = "local"

====
